---------------------------- MODULE Spec2Model ----------------------------
(***************************************************************************)
(* State-machine model of openGL_practice/main.cpp: the start-up sequence  *)
(* of main (GLFW, window, GLEW, shader, model), the render loop, the       *)
(* keyboard polling of processInput and the GLFW callbacks mouse_callback, *)
(* scroll_callback and framebuffer_size_callback.                          *)
(*                                                                         *)
(* Numbers.  A C++ double is modelled by an exact integer number of units  *)
(* (a unit is a fixed negative power of two of a pixel or of a second);    *)
(* every value the model handles is far below 2^53 units, so double        *)
(* arithmetic on it is exact.  A C++ float keeps FloatRadix = 2^24         *)
(* significant units: ToFloat rounds to the nearest such value, ties to    *)
(* even, as the conversion double -> float and float arithmetic do.        *)
(***************************************************************************)
EXTENDS Integers, Sequences, FiniteSets

\* ------------------------------------------------------------------ bounds
\* Iterations of the render loop a run may start.
MaxFrames == 2
\* Events one glfwPollEvents call may deliver.
MaxEvents == 2

\* ------------------------------------------------------- program constants
SCR_WIDTH  == 800
SCR_HEIGHT == 600
\* Significand of a float: 24 bits.
FloatRadix == 2^24
\* Units per pixel (cursor coordinates) and per second (clock readings).
PxUnit  == 2^18
SecUnit == 2^24

\* --------------------------------------------------------------- floats
RECURSIVE UlpFrom(_, _)
\* The spacing of floats around a >= 0: the least power of two q with
\* a < FloatRadix * q.
UlpFrom(a, q) == IF a < FloatRadix * q THEN q ELSE UlpFrom(a, 2 * q)

ToFloatAbs(a) ==
    LET q  == UlpFrom(a, 1)
        lo == (a \div q) * q
        r  == a - lo
    IN  IF 2 * r < q THEN lo
        ELSE IF 2 * r > q THEN lo + q
        ELSE IF (lo \div q) % 2 = 0 THEN lo ELSE lo + q

\* double -> float, round to nearest, ties to even.
ToFloat(x) == IF x >= 0 THEN ToFloatAbs(x) ELSE 0 - ToFloatAbs(0 - x)

\* ------------------------------------------------------- input domains
Keys == {"ESCAPE", "W", "S", "A", "D"}
\* Clock advances between two glfwGetTime readings (units of 1/SecUnit s).
TimeSteps == {1, 2 * SecUnit + 3}
\* Cursor positions GLFW may report (doubles, units of 1/PxUnit pixel).
CursorXs == {400 * PxUnit, 400 * PxUnit + 5, 400 * PxUnit + 6}
CursorYs == {300 * PxUnit, 300 * PxUnit + 5}
\* Scroll offsets GLFW may report.
ScrollXs == {0, 3}
ScrollYs == {0 - 1, 1}
\* Framebuffer sizes GLFW may report (a high-density display doubles them).
FbSizes == {<<2 * SCR_WIDTH, 2 * SCR_HEIGHT>>}

None == <<>>
\* The key states while GLFW has key events to process.
Unknown == {"unknown"}

VARIABLES
    pc,          \* position of main
    exitCode,    \* value returned by main, -1 while it runs
    initRes,     \* outcome of glfwInit: "untried", "ok", "fail"
    windowRes,   \* outcome of glfwCreateWindow
    glewRes,     \* outcome of glewInit
    shaderRes,   \* outcome of constructing ourShader
    modelRes,    \* outcome of constructing ourModel
    window,      \* "none", "live", "destroyed"
    destroys,    \* how often the window was destroyed, explicitly or not
    calls,       \* how often each start-up / shut-down function was called
    afterTerm,   \* a GLFW or OpenGL call was made after glfwTerminate
    shouldClose, \* the window's should-close flag
    keys,        \* keys glfwGetKey reports as pressed, Unknown once
                 \* glfwPollEvents may have changed them
    clock,       \* glfwGetTime, units
    deltaTime, lastFrame,        \* timing globals (floats)
    lastX, lastY, firstMouse,    \* cursor globals (floats, bool)
    cursor,      \* position of the latest cursor event GLFW reported, or None
    viewport,    \* arguments of the latest glViewport, or None
    cameraCalls, \* calls made on the global camera since the iteration
                 \* started or, later, since glfwPollEvents was entered
    eventLog,    \* events handed to callbacks by the current glfwPollEvents
    callsAtInput,\* Len(cameraCalls) when this frame's processInput returned
    callsAtRead, \* Len(cameraCalls) when camera.Zoom / GetViewMatrix were read
    frameLog,    \* statements of the current loop iteration, in order
    frameDelta,  \* deltaTime as computed in the current iteration
    iters, clears, uses, draws, swaps,  \* totals over the run
    evLeft       \* events the current glfwPollEvents may still deliver

vars == <<pc, exitCode, initRes, windowRes, glewRes, shaderRes, modelRes,
          window, destroys, calls, afterTerm, shouldClose, keys, clock,
          deltaTime, lastFrame, lastX, lastY, firstMouse, cursor, viewport,
          cameraCalls, eventLog, callsAtInput, callsAtRead, frameLog,
          frameDelta, iters, clears, uses, draws, swaps, evLeft>>

startupVars == <<initRes, windowRes, glewRes, shaderRes, modelRes>>
timeVars    == <<clock, deltaTime, lastFrame, frameDelta>>
cursorVars  == <<lastX, lastY, firstMouse, cursor>>
cameraVars  == <<cameraCalls, eventLog, callsAtInput, callsAtRead>>
countVars   == <<iters, clears, uses, draws, swaps>>

ApiNames == {"glfwInit", "glfwCreateWindow", "glewInit", "glfwDestroyWindow",
             "glfwTerminate"}

Init ==
    /\ pc = "glfwInit"
    /\ exitCode = 0 - 1
    /\ initRes = "untried" /\ windowRes = "untried" /\ glewRes = "untried"
    /\ shaderRes = "untried" /\ modelRes = "untried"
    /\ window = "none"
    /\ destroys = 0
    /\ calls = [f \in ApiNames |-> 0]
    /\ afterTerm = FALSE
    /\ shouldClose = FALSE
    /\ keys = {}
    /\ clock = 0
    /\ deltaTime = 0 /\ lastFrame = 0
    /\ lastX = ToFloat((SCR_WIDTH * PxUnit) \div 2)
    /\ lastY = ToFloat((SCR_HEIGHT * PxUnit) \div 2)
    /\ firstMouse = TRUE
    /\ cursor = None
    /\ viewport = None
    /\ cameraCalls = <<>> /\ eventLog = <<>>
    /\ callsAtInput = 0 /\ callsAtRead = 0
    /\ frameLog = <<>>
    /\ frameDelta = 0
    /\ iters = 0 /\ clears = 0 /\ uses = 0 /\ draws = 0 /\ swaps = 0
    /\ evLeft = 0

\* ------------------------------------------------------------ helpers
\* Every GLFW / OpenGL call notes whether glfwTerminate ran before it.
NoteCall == afterTerm' = (afterTerm \/ calls["glfwTerminate"] > 0)

Count(f) == [calls EXCEPT ![f] = @ + 1]
Count2(f, g) == [calls EXCEPT ![f] = @ + 1, ![g] = @ + 1]

\* glfwTerminate destroys every window that is still open.
WindowAfterTerminate(w) == IF w = "live" THEN "destroyed" ELSE w
DestroysAfterTerminate(w, n) == IF w = "live" THEN n + 1 ELSE n

\* Mutant of Return: every path returns 0.
ReturnSuccess(code) == /\ exitCode' = 0
                       /\ pc' = "done"

\* return code; from main.
Return(code) == /\ exitCode' = code
                /\ pc' = "done"

\* One statement of the loop body: from -> to, logged as `call`.
FrameStep(from, to, call) ==
    /\ pc = from
    /\ pc' = to
    /\ frameLog' = Append(frameLog, call)
    /\ NoteCall

\* ----------------------------------------------------------- start-up
\* Mutant of GlfwInit: the failure is reported but main carries on.
GlfwInitNoAbort(ok) ==
    /\ pc = "glfwInit"
    /\ NoteCall
    /\ initRes' = IF ok THEN "ok" ELSE "fail"
    /\ calls' = Count("glfwInit")
    /\ pc' = "hints"
    /\ UNCHANGED <<exitCode, window, destroys, windowRes, glewRes, shaderRes,
                   modelRes, shouldClose, keys, timeVars, cursorVars,
                   cameraVars, viewport, frameLog, countVars, evLeft>>

\* main.cpp 54-59
GlfwInit(ok) ==
    /\ pc = "glfwInit"
    /\ NoteCall
    /\ IF ok
       THEN /\ initRes' = "ok"
            /\ calls' = Count("glfwInit")
            /\ pc' = "hints"
            /\ UNCHANGED <<exitCode, window, destroys>>
       ELSE /\ initRes' = "fail"
            /\ calls' = Count2("glfwInit", "glfwTerminate")
            /\ window' = WindowAfterTerminate(window)
            /\ destroys' = DestroysAfterTerminate(window, destroys)
            /\ Return(1)
    /\ UNCHANGED <<windowRes, glewRes, shaderRes, modelRes, shouldClose, keys,
                   timeVars, cursorVars, cameraVars, viewport, frameLog,
                   countVars, evLeft>>

\* main.cpp 64-68
WindowHints ==
    /\ pc = "hints"
    /\ pc' = "createWindow"
    /\ NoteCall
    /\ UNCHANGED <<exitCode, startupVars, window, destroys, calls, shouldClose,
                   keys, timeVars, cursorVars, cameraVars, viewport, frameLog,
                   countVars, evLeft>>

\* main.cpp 71-80
CreateWindow(ok) ==
    /\ pc = "createWindow"
    /\ NoteCall
    /\ IF ok
       THEN /\ windowRes' = "ok"
            /\ calls' = Count("glfwCreateWindow")
            /\ window' = "live"
            /\ pc' = "callbacks"
            /\ UNCHANGED <<exitCode, destroys>>
       ELSE /\ windowRes' = "fail"
            /\ calls' = Count2("glfwCreateWindow", "glfwTerminate")
            /\ window' = WindowAfterTerminate(window)
            /\ destroys' = DestroysAfterTerminate(window, destroys)
            /\ Return(1)
    /\ UNCHANGED <<initRes, glewRes, shaderRes, modelRes, shouldClose, keys,
                   timeVars, cursorVars, cameraVars, viewport, frameLog,
                   countVars, evLeft>>

\* main.cpp 81-88: make the context current, register the three callbacks,
\* capture the cursor.
SetupContext ==
    /\ pc = "callbacks"
    /\ pc' = "glewInit"
    /\ NoteCall
    /\ UNCHANGED <<exitCode, startupVars, window, destroys, calls, shouldClose,
                   keys, timeVars, cursorVars, cameraVars, viewport, frameLog,
                   countVars, evLeft>>

\* Mutant of GlewInit: the failure path destroys the window and returns
\* without calling glfwTerminate.
GlewInitNoTerminate(ok) ==
    /\ pc = "glewInit"
    /\ NoteCall
    /\ IF ok
       THEN /\ glewRes' = "ok"
            /\ calls' = Count("glewInit")
            /\ pc' = "glstate"
            /\ UNCHANGED <<exitCode, window, destroys>>
       ELSE /\ glewRes' = "fail"
            /\ calls' = Count2("glewInit", "glfwDestroyWindow")
            /\ window' = "destroyed"
            /\ destroys' = destroys + 1
            /\ Return(1)
    /\ UNCHANGED <<initRes, windowRes, shaderRes, modelRes, shouldClose, keys,
                   timeVars, cursorVars, cameraVars, viewport, frameLog,
                   countVars, evLeft>>

\* main.cpp 90-96
GlewInit(ok) ==
    /\ pc = "glewInit"
    /\ NoteCall
    /\ IF ok
       THEN /\ glewRes' = "ok"
            /\ calls' = Count("glewInit")
            /\ pc' = "glstate"
            /\ UNCHANGED <<exitCode, window, destroys>>
       ELSE /\ glewRes' = "fail"
            /\ calls' = [calls EXCEPT !["glewInit"] = @ + 1,
                                      !["glfwDestroyWindow"] = @ + 1,
                                      !["glfwTerminate"] = @ + 1]
            \* glfwDestroyWindow(window), then glfwTerminate()
            /\ window' = WindowAfterTerminate("destroyed")
            /\ destroys' = DestroysAfterTerminate("destroyed", destroys + 1)
            /\ Return(1)
    /\ UNCHANGED <<initRes, windowRes, shaderRes, modelRes, shouldClose, keys,
                   timeVars, cursorVars, cameraVars, viewport, frameLog,
                   countVars, evLeft>>

\* main.cpp 99-103
ConfigureGL ==
    /\ pc = "glstate"
    /\ pc' = "shader"
    /\ NoteCall
    /\ UNCHANGED <<exitCode, startupVars, window, destroys, calls, shouldClose,
                   keys, timeVars, cursorVars, cameraVars, viewport, frameLog,
                   countVars, evLeft>>

\* Mutant of BuildShader: a shader that failed to build aborts main.
BuildShaderChecked(ok) ==
    /\ pc = "shader"
    /\ shaderRes' = IF ok THEN "ok" ELSE "fail"
    /\ NoteCall
    /\ IF ok
       THEN /\ pc' = "model"
            /\ UNCHANGED <<exitCode, window, destroys, calls>>
       ELSE /\ calls' = Count("glfwTerminate")
            /\ window' = WindowAfterTerminate(window)
            /\ destroys' = DestroysAfterTerminate(window, destroys)
            /\ Return(1)
    /\ UNCHANGED <<initRes, windowRes, glewRes, modelRes, shouldClose, keys,
                   timeVars, cursorVars, cameraVars, viewport, frameLog,
                   countVars, evLeft>>

\* main.cpp 107: the constructor's outcome is not inspected.
BuildShader(ok) ==
    /\ pc = "shader"
    /\ shaderRes' = IF ok THEN "ok" ELSE "fail"
    /\ pc' = "model"
    /\ NoteCall
    /\ UNCHANGED <<exitCode, initRes, windowRes, glewRes, modelRes, window,
                   destroys, calls, shouldClose, keys, timeVars, cursorVars,
                   cameraVars, viewport, frameLog, countVars, evLeft>>

\* main.cpp 111: the constructor's outcome is not inspected.
LoadModel(ok) ==
    /\ pc = "model"
    /\ modelRes' = IF ok THEN "ok" ELSE "fail"
    /\ pc' = "loop"
    /\ NoteCall
    /\ UNCHANGED <<exitCode, initRes, windowRes, glewRes, shaderRes, window,
                   destroys, calls, shouldClose, keys, timeVars, cursorVars,
                   cameraVars, viewport, frameLog, countVars, evLeft>>

\* -------------------------------------------------------- render loop
\* main.cpp 114: while (!glfwWindowShouldClose(window))
LoopTest ==
    /\ pc = "loop"
    /\ NoteCall
    /\ IF shouldClose
       THEN /\ pc' = "terminate"
            /\ UNCHANGED <<iters, frameLog>>
       ELSE /\ iters < MaxFrames
            /\ pc' = "time"
            /\ iters' = iters + 1
            /\ frameLog' = <<>>
    /\ UNCHANGED <<exitCode, startupVars, window, destroys, calls, shouldClose,
                   keys, timeVars, cursorVars, cameraVars, viewport, clears,
                   uses, draws, swaps, evLeft>>

\* What glfwGetKey can report: the states GLFW holds, any once key events
\* were processed.
KeysReported == IF keys = Unknown THEN SUBSET Keys ELSE {keys}

\* Mutant of PerFrameTime: lastFrame is not brought up to date.
PerFrameTimeStale(t) ==
    LET currentFrame == ToFloat(t)
    IN  /\ deltaTime' = ToFloat(currentFrame - lastFrame)
        /\ lastFrame' = lastFrame

\* main.cpp 120-122: currentFrame is a float, glfwGetTime() a double.
PerFrameTime(t) ==
    LET currentFrame == ToFloat(t)
    IN  /\ deltaTime' = ToFloat(currentFrame - lastFrame)
        /\ lastFrame' = currentFrame

FrameTime ==
    /\ FrameStep("time", "input", "time")
    /\ \E dt \in TimeSteps :
          /\ clock' = clock + dt
          /\ PerFrameTime(clock + dt)
    /\ frameDelta' = deltaTime'
    /\ UNCHANGED <<exitCode, startupVars, window, destroys, calls, shouldClose,
                   keys, cursorVars, cameraVars, viewport, countVars, evLeft>>

\* Mutant of CloseFlagAfterInput: Escape is not acted on.
CloseFlagEscapeIgnored(flag, ks) == flag

\* main.cpp 164-165: the flag is written only when Escape is pressed.
CloseFlagAfterInput(flag, ks) == IF "ESCAPE" \in ks THEN TRUE ELSE flag

KeyCall(ks, key, direction, dt) ==
    IF key \in ks THEN << <<"ProcessKeyboard", direction, dt>> >> ELSE <<>>

\* Mutant of KeyboardCalls: the four tests chained with else.
KeyboardCallsElseIf(ks, dt) ==
    IF "W" \in ks THEN KeyCall(ks, "W", "FORWARD", dt)
    ELSE IF "S" \in ks THEN KeyCall(ks, "S", "BACKWARD", dt)
    ELSE IF "A" \in ks THEN KeyCall(ks, "A", "LEFT", dt)
    ELSE KeyCall(ks, "D", "RIGHT", dt)

\* main.cpp 167-174: the camera.ProcessKeyboard calls, in program order.
KeyboardCalls(ks, dt) ==
    KeyCall(ks, "W", "FORWARD", dt) \o KeyCall(ks, "S", "BACKWARD", dt)
        \o KeyCall(ks, "A", "LEFT", dt) \o KeyCall(ks, "D", "RIGHT", dt)

\* main.cpp 126, 162-175
ProcessInput ==
    /\ FrameStep("input", "clearColor", "processInput")
    /\ \E ks \in KeysReported :
          /\ keys' = ks
          /\ shouldClose' = CloseFlagAfterInput(shouldClose, ks)
          /\ cameraCalls' = cameraCalls \o KeyboardCalls(ks, deltaTime)
    /\ callsAtInput' = Len(cameraCalls')
    /\ UNCHANGED <<exitCode, startupVars, window, destroys, calls,
                   timeVars, cursorVars, eventLog, callsAtRead, viewport,
                   countVars, evLeft>>

\* main.cpp 131
ClearColor ==
    /\ FrameStep("clearColor", "clear", "glClearColor")
    /\ UNCHANGED <<exitCode, startupVars, window, destroys, calls, shouldClose,
                   keys, timeVars, cursorVars, cameraVars, viewport, countVars,
                   evLeft>>

\* main.cpp 132
Clear ==
    /\ FrameStep("clear", "use", "glClear")
    /\ clears' = clears + 1
    /\ UNCHANGED <<exitCode, startupVars, window, destroys, calls, shouldClose,
                   keys, timeVars, cursorVars, cameraVars, viewport, iters,
                   uses, draws, swaps, evLeft>>

\* main.cpp 135
UseShader ==
    /\ FrameStep("use", "viewProjection", "use")
    /\ uses' = uses + 1
    /\ UNCHANGED <<exitCode, startupVars, window, destroys, calls, shouldClose,
                   keys, timeVars, cursorVars, cameraVars, viewport, iters,
                   clears, draws, swaps, evLeft>>

\* main.cpp 138-141: camera.Zoom and camera.GetViewMatrix() are read here.
SetViewProjection ==
    /\ FrameStep("viewProjection", "modelMatrix", "setProjectionView")
    /\ callsAtRead' = Len(cameraCalls)
    /\ UNCHANGED <<exitCode, startupVars, window, destroys, calls, shouldClose,
                   keys, timeVars, cursorVars, cameraCalls, eventLog,
                   callsAtInput, viewport, countVars, evLeft>>

\* main.cpp 144-147
SetModelMatrix ==
    /\ FrameStep("modelMatrix", "draw", "setModel")
    /\ UNCHANGED <<exitCode, startupVars, window, destroys, calls, shouldClose,
                   keys, timeVars, cursorVars, cameraVars, viewport, countVars,
                   evLeft>>

\* Mutant of Draw: the frame is drawn but never presented.
DrawWithoutSwap ==
    /\ FrameStep("draw", "poll", "Draw")
    /\ draws' = draws + 1
    /\ UNCHANGED <<exitCode, startupVars, window, destroys, calls, shouldClose,
                   keys, timeVars, cursorVars, cameraVars, viewport, iters,
                   clears, uses, swaps, evLeft>>

\* main.cpp 148
Draw ==
    /\ FrameStep("draw", "swap", "Draw")
    /\ draws' = draws + 1
    /\ UNCHANGED <<exitCode, startupVars, window, destroys, calls, shouldClose,
                   keys, timeVars, cursorVars, cameraVars, viewport, iters,
                   clears, uses, swaps, evLeft>>

\* main.cpp 153
SwapBuffers ==
    /\ FrameStep("swap", "poll", "glfwSwapBuffers")
    /\ swaps' = swaps + 1
    /\ UNCHANGED <<exitCode, startupVars, window, destroys, calls, shouldClose,
                   keys, timeVars, cursorVars, cameraVars, viewport, iters,
                   clears, uses, draws, evLeft>>

\* main.cpp 154: glfwPollEvents is entered; its pending events follow.  No
\* key callback is registered: key presses and releases only change what
\* the next glfwGetKey (164-173) reports.
PollEvents ==
    /\ FrameStep("poll", "polling", "glfwPollEvents")
    /\ evLeft' = MaxEvents
    /\ keys' = Unknown
    /\ cameraCalls' = <<>>
    /\ callsAtInput' = 0
    /\ callsAtRead' = 0
    /\ UNCHANGED <<exitCode, startupVars, window, destroys, calls, shouldClose,
                   timeVars, cursorVars, eventLog, viewport, countVars>>

\* main.cpp 154: glfwPollEvents returns, the loop body ends.  A request
\* to close the window among the events sets the flag main.cpp 114 reads;
\* no callback reads it, so it is applied where glfwPollEvents returns.
PollReturn ==
    /\ pc = "polling"
    /\ pc' = "loop"
    /\ evLeft' = 0
    /\ \E closeRequested \in BOOLEAN :
          shouldClose' = (shouldClose \/ closeRequested)
    /\ cameraCalls' = <<>>
    /\ eventLog' = <<>>
    /\ UNCHANGED <<exitCode, startupVars, window, destroys, calls, afterTerm,
                   keys, timeVars, cursorVars, callsAtInput, callsAtRead,
                   viewport, frameLog, countVars>>

\* main.cpp 157-159
Terminate ==
    /\ pc = "terminate"
    /\ NoteCall
    /\ calls' = Count("glfwTerminate")
    /\ window' = WindowAfterTerminate(window)
    /\ destroys' = DestroysAfterTerminate(window, destroys)
    /\ Return(0)
    /\ UNCHANGED <<startupVars, shouldClose, keys, timeVars, cursorVars,
                   cameraVars, viewport, frameLog, countVars, evLeft>>

\* ----------------------------------------- events and GLFW callbacks
\* GLFW runs the callbacks from inside glfwPollEvents (main.cpp 154), on
\* the thread that called it.
InPollEvents == pc = "polling"

\* Mutant of Dispatch: events reach the callbacks from another thread
\* while main is about to draw.
DispatchAsync ==
    /\ pc \in {"polling", "draw"}
    /\ Len(eventLog) < MaxEvents
    /\ evLeft' = evLeft
    /\ NoteCall
    /\ UNCHANGED <<pc, exitCode, startupVars, window, destroys, calls,
                   shouldClose, keys, timeVars, frameLog, countVars,
                   callsAtInput, callsAtRead>>

Dispatch ==
    /\ InPollEvents
    /\ evLeft > 0
    /\ evLeft' = evLeft - 1
    /\ NoteCall
    /\ UNCHANGED <<pc, exitCode, startupVars, window, destroys, calls,
                   shouldClose, keys, timeVars, frameLog, countVars,
                   callsAtInput, callsAtRead>>

\* main.cpp 191-196: the first event overwrites lastX / lastY (floats) with
\* the event's position (doubles).
LastAfterFirstCheck(first, last, pos) == IF first THEN ToFloat(pos) ELSE last

\* main.cpp 198: float xoffset = xpos - lastX, computed in double.
XOffset(xpos, lx) == ToFloat(xpos - lx)
\* main.cpp 199: float yoffset = lastY - ypos, computed in double.
YOffset(ypos, ly) == ToFloat(ly - ypos)

\* main.cpp 189-205
mouse_callback(xpos, ypos) ==
    LET lx == LastAfterFirstCheck(firstMouse, lastX, xpos)
        ly == LastAfterFirstCheck(firstMouse, lastY, ypos)
    IN  /\ firstMouse' = FALSE
        /\ lastX' = ToFloat(xpos)
        /\ lastY' = ToFloat(ypos)
        /\ cameraCalls' = Append(cameraCalls,
               <<"ProcessMouseMovement", XOffset(xpos, lx), YOffset(ypos, ly)>>)

\* A cursor event: GLFW reports a position only when it changed.
CursorEvent ==
    /\ Dispatch
    /\ \E xpos \in CursorXs, ypos \in CursorYs :
          /\ cursor # <<xpos, ypos>>
          /\ mouse_callback(xpos, ypos)
          /\ cursor' = <<xpos, ypos>>
          /\ eventLog' = Append(eventLog, <<"cursor", xpos, ypos>>)
    /\ UNCHANGED viewport

\* main.cpp 209-212: ProcessMouseScroll takes a float.
scroll_callback(xoffset, yoffset) ==
    cameraCalls' = Append(cameraCalls, <<"ProcessMouseScroll", ToFloat(yoffset)>>)

ScrollEvent ==
    /\ Dispatch
    /\ \E xoffset \in ScrollXs, yoffset \in ScrollYs :
          /\ scroll_callback(xoffset, yoffset)
          /\ eventLog' = Append(eventLog, <<"scroll", xoffset, yoffset>>)
    /\ UNCHANGED <<cursorVars, viewport>>

\* main.cpp 180-185
framebuffer_size_callback(width, height) ==
    viewport' = <<0, 0, width, height>>

FramebufferSizeEvent ==
    /\ Dispatch
    /\ \E size \in FbSizes :
          /\ framebuffer_size_callback(size[1], size[2])
          /\ eventLog' = Append(eventLog, <<"framebuffer", size[1], size[2]>>)
    /\ UNCHANGED <<cursorVars, cameraCalls>>

\* ------------------------------------------------------ specification
MainStep ==
    \/ \E ok \in BOOLEAN : GlfwInit(ok)
    \/ WindowHints
    \/ \E ok \in BOOLEAN : CreateWindow(ok)
    \/ SetupContext
    \/ \E ok \in BOOLEAN : GlewInit(ok)
    \/ ConfigureGL
    \/ \E ok \in BOOLEAN : BuildShader(ok)
    \/ \E ok \in BOOLEAN : LoadModel(ok)
    \/ LoopTest
    \/ FrameTime
    \/ ProcessInput
    \/ ClearColor
    \/ Clear
    \/ UseShader
    \/ SetViewProjection
    \/ SetModelMatrix
    \/ Draw
    \/ SwapBuffers
    \/ PollEvents
    \/ PollReturn
    \/ Terminate

EventStep ==
    \/ CursorEvent
    \/ ScrollEvent
    \/ FramebufferSizeEvent

Next == MainStep \/ EventStep

Spec == Init /\ [][Next]_vars

\* main is one thread that runs on until it returns, and glfwPollEvents
\* returns once the pending events are handled.
FairSpec == Spec /\ WF_vars(MainStep)

\* ============================================================ claims
Failed == "fail" \in {initRes, windowRes, glewRes}
AllSucceeded == initRes = "ok" /\ windowRes = "ok" /\ glewRes = "ok"

\* C1: main returns 1 exactly when one of glfwInit, glfwCreateWindow and
\* glewInit failed, and 0 exactly when all three succeeded and the render
\* loop then exited; it returns nothing else, and only when it is done.
C1_ExitCode ==
    /\ exitCode \in {0 - 1, 0, 1}
    /\ (exitCode # 0 - 1) <=> (pc = "done")
    /\ pc = "done" =>
          /\ (exitCode = 1) <=> Failed
          /\ (exitCode = 0) <=> (AllSucceeded /\ shouldClose /\ iters >= 1)
          /\ Failed \/ AllSucceeded

\* C1 witness: glewInit failed after the two earlier steps succeeded, and
\* main returned 1.
C1_Witness ==
    /\ pc = "done" /\ exitCode = 1
    /\ initRes = "ok" /\ windowRes = "ok" /\ glewRes = "fail"

\* C2: when an initialization step fails, main is done at once: no later
\* step was attempted, none is called twice, neither the shader nor the
\* model is constructed, the loop body is not entered and nothing is drawn.
C2_FailFast ==
    /\ calls["glfwInit"] <= 1
    /\ calls["glfwCreateWindow"] <= 1
    /\ calls["glewInit"] <= 1
    /\ Failed =>
          /\ pc = "done"
          /\ shaderRes = "untried" /\ modelRes = "untried"
          /\ iters = 0 /\ frameLog = <<>>
          /\ clears = 0 /\ uses = 0 /\ draws = 0 /\ swaps = 0
    /\ initRes = "fail" =>
          /\ windowRes = "untried" /\ glewRes = "untried"
          /\ calls["glfwCreateWindow"] = 0 /\ calls["glewInit"] = 0
    /\ windowRes = "fail" =>
          /\ glewRes = "untried"
          /\ calls["glewInit"] = 0

\* C2 witness: glfwCreateWindow returned null and main is done.
C2_Witness ==
    /\ pc = "done"
    /\ initRes = "ok" /\ windowRes = "fail"
    /\ calls["glfwCreateWindow"] = 1

\* Positions of main inside the loop body after processInput returned and
\* before glfwPollEvents is entered.
AfterInput == {"clearColor", "clear", "use", "viewProjection", "modelMatrix",
               "draw", "swap", "poll"}
InLoopBody == {"time", "input", "polling"} \cup AfterInput

\* C3: processInput with Escape pressed sets the should-close flag; the
\* flag is never reset; once it is set no further iteration starts, while
\* the iteration in progress is still cleared, drawn and swapped; the loop
\* is left only with the flag set, and then glfwTerminate is called once
\* and main returns 0; once the flag is set main eventually returns.
C3_EscapeInv ==
    /\ (pc \in AfterInput /\ "ESCAPE" \in keys) => shouldClose
    /\ (pc = "terminate" \/ (pc = "done" /\ AllSucceeded)) =>
          /\ shouldClose
          /\ iters >= 1
          /\ clears = iters /\ draws = iters /\ swaps = iters
    /\ (pc = "done" /\ AllSucceeded) =>
          /\ exitCode = 0
          /\ calls["glfwTerminate"] = 1

C3_EscapeCloses ==
    /\ []C3_EscapeInv
    /\ [][shouldClose => (shouldClose' /\ iters' = iters)]_vars
    /\ (shouldClose ~> (pc = "done"))

\* C3 witness: Escape was pressed during a processInput, the frame went
\* on to its buffer swap and the flag is set.
C3_Witness ==
    /\ pc = "poll"
    /\ "ESCAPE" \in keys
    /\ shouldClose
    /\ swaps = iters

Direction == [W |-> "FORWARD", S |-> "BACKWARD", A |-> "LEFT", D |-> "RIGHT"]
MoveKeys == {"W", "S", "A", "D"}
DirectionRank == [FORWARD |-> 1, BACKWARD |-> 2, LEFT |-> 3, RIGHT |-> 4]

\* The calls of cameraCalls that name direction d.
CallsWith(d) == {i \in 1..Len(cameraCalls) : cameraCalls[i][2] = d}

\* C4: after processInput, the camera got exactly one ProcessKeyboard call
\* per pressed key of W, S, A, D, with that key's direction and with the
\* deltaTime of this iteration, in the order W, S, A, D; none for a key
\* that is not pressed; Escape changes none of it.
C4_KeyboardCalls ==
    pc \in AfterInput =>
       /\ callsAtInput = Len(cameraCalls)
       /\ Len(cameraCalls) = Cardinality(keys \cap MoveKeys)
       /\ \A i \in 1..Len(cameraCalls) :
             /\ cameraCalls[i][1] = "ProcessKeyboard"
             /\ cameraCalls[i][3] = frameDelta
             /\ cameraCalls[i][3] = deltaTime
       /\ \A k \in MoveKeys :
             Cardinality(CallsWith(Direction[k])) = IF k \in keys THEN 1 ELSE 0
       /\ \A i, j \in 1..Len(cameraCalls) :
             i < j => DirectionRank[cameraCalls[i][2]]
                         < DirectionRank[cameraCalls[j][2]]

\* C4 witness: Escape, W and S are pressed together and processInput made
\* the FORWARD and the BACKWARD call.
C4_Witness ==
    /\ pc = "clearColor"
    /\ keys = {"ESCAPE", "W", "S"}
    /\ Len(cameraCalls) = 2
    /\ cameraCalls[1][2] = "FORWARD"
    /\ cameraCalls[2][2] = "BACKWARD"

FrameOrder == <<"time", "processInput", "glClearColor", "glClear", "use",
                "setProjectionView", "setModel", "Draw", "glfwSwapBuffers",
                "glfwPollEvents">>

\* How many statements of the current iteration have run at each position.
StepsDone == [time |-> 0, input |-> 1, clearColor |-> 2, clear |-> 3,
              use |-> 4, viewProjection |-> 5, modelMatrix |-> 6, draw |-> 7,
              swap |-> 8, poll |-> 9, polling |-> 10]

\* Whether statement `call` of the current iteration has run.
Ran(call) == \E i \in 1..Len(frameLog) : frameLog[i] = call
Pending(call) == IF pc \in InLoopBody /\ ~Ran(call) THEN 1 ELSE 0

\* C5: every iteration runs time, processInput, glClearColor, glClear,
\* use, the projection / view / model uniforms, Draw, glfwSwapBuffers and
\* glfwPollEvents in this order, each once; clears, shader binds, draws and
\* swaps each number as many as the iterations.
C5_FrameOrder ==
    /\ Len(frameLog) <= Len(FrameOrder)
    /\ \A i \in 1..Len(frameLog) : frameLog[i] = FrameOrder[i]
    /\ pc \in InLoopBody => Len(frameLog) = StepsDone[pc]
    /\ (pc \in {"loop", "terminate"} /\ iters >= 1) => frameLog = FrameOrder
    /\ clears = iters - Pending("glClear")
    /\ uses = iters - Pending("use")
    /\ draws = iters - Pending("Draw")
    /\ swaps = iters - Pending("glfwSwapBuffers")

\* C5 witness: two complete iterations, each with its clear, draw and swap.
C5_Witness ==
    /\ pc = "loop"
    /\ iters = 2
    /\ frameLog = FrameOrder
    /\ clears = 2 /\ draws = 2 /\ swaps = 2

\* C6: the camera and the cursor globals lastX, lastY, firstMouse change
\* only inside processInput or inside a callback, and callbacks run only
\* while main is inside glfwPollEvents; from the reading of camera.Zoom and
\* camera.GetViewMatrix() to the buffer swap the camera stays as processInput
\* left it.
C6_HandlerInv ==
    /\ pc \in {"modelMatrix", "draw", "swap", "poll"} =>
          /\ callsAtRead = callsAtInput
          /\ Len(cameraCalls) = callsAtRead
    /\ eventLog # <<>> => pc = "polling"
    /\ pc # "polling" => evLeft = 0

C6_HandlersBetweenFrames ==
    /\ []C6_HandlerInv
    /\ [][/\ Len(cameraCalls') > Len(cameraCalls) =>
                \/ pc = "input" /\ pc' = "clearColor"
                \/ pc = "polling" /\ pc' = "polling"
          /\ (lastX' # lastX \/ lastY' # lastY \/ firstMouse' # firstMouse
                 \/ Len(eventLog') > Len(eventLog)) =>
                (pc = "polling" /\ pc' = "polling")
          /\ Len(eventLog') > Len(eventLog) =>
                Len(eventLog') = Len(eventLog) + 1]_vars

\* C6 witness: inside one glfwPollEvents two callbacks ran, one after the
\* other, and changed the camera.
C6_Witness ==
    /\ pc = "polling"
    /\ Len(eventLog) = 2
    /\ Len(cameraCalls) = 2
    /\ iters = 2

\* C7: the window is created at most once and, when created, destroyed
\* exactly once by the time main returns; every return is preceded by
\* exactly one glfwTerminate, which is the last GLFW / OpenGL call.
C7_WindowLifetime ==
    /\ calls["glfwCreateWindow"] <= 1
    /\ destroys <= 1
    /\ ~afterTerm
    /\ pc # "done" => (calls["glfwTerminate"] = 0 /\ destroys = 0)
    /\ window = "live" <=> (windowRes = "ok" /\ pc # "done")
    /\ pc = "done" =>
          /\ calls["glfwTerminate"] = 1
          /\ windowRes = "ok" => (window = "destroyed" /\ destroys = 1)
          /\ windowRes # "ok" => (window = "none" /\ destroys = 0)
          /\ calls["glfwDestroyWindow"] = IF glewRes = "fail" THEN 1 ELSE 0

\* C7 witness: glewInit failed; the window was destroyed explicitly, once,
\* and glfwTerminate followed.
C7_Witness ==
    /\ pc = "done"
    /\ glewRes = "fail"
    /\ calls["glfwDestroyWindow"] = 1
    /\ calls["glfwTerminate"] = 1
    /\ destroys = 1

\* C9: once glfwInit, glfwCreateWindow and glewInit succeeded, main leaves
\* only through the render loop, whatever became of the shader and of the
\* model: both constructors ran, at least one iteration drew, and main
\* returns 0.
C9_ShaderFailureIgnored ==
    /\ (AllSucceeded /\ pc \in InLoopBody \cup {"loop", "terminate", "done"}) =>
          /\ shaderRes \in {"ok", "fail"}
          /\ modelRes \in {"ok", "fail"}
    /\ (AllSucceeded /\ pc \in {"terminate", "done"}) =>
          /\ iters >= 1
          /\ draws >= 1
    /\ (AllSucceeded /\ pc = "done") => exitCode = 0
    /\ (shaderRes = "fail" \/ modelRes = "fail") => exitCode # 1

\* C9 witness: the shader and the model both failed, a frame was drawn and
\* main returned 0.
C9_Witness ==
    /\ pc = "done"
    /\ shaderRes = "fail" /\ modelRes = "fail"
    /\ draws >= 1
    /\ exitCode = 0

Abs(x) == IF x >= 0 THEN x ELSE 0 - x

\* C8 as stated: at the start of an iteration deltaTime becomes the clock
\* reading t minus the previous iteration's reading (0 before the first),
\* and lastFrame becomes t.
C8_Original ==
    [][pc = "time" => (lastFrame' = clock' /\ deltaTime' = clock' - clock)]_vars

\* C8 as amended: lastFrame becomes t narrowed to float, deltaTime the float
\* difference of that and the previous lastFrame, which is t minus the
\* previous reading up to one and a half float spacings at t; the first
\* deltaTime is float(t); deltaTime is never negative; the timing globals
\* change nowhere else, and processInput passes this iteration's deltaTime.
C8_TimingInv ==
    /\ deltaTime >= 0
    /\ lastFrame = ToFloat(clock)
    /\ 2 * Abs(lastFrame - clock) <= UlpFrom(clock, 1)
    /\ frameDelta = deltaTime
    /\ (iters = 1 /\ pc # "time") => deltaTime = lastFrame
    /\ pc \in AfterInput =>
          \A i \in 1..Len(cameraCalls) : cameraCalls[i][3] = frameDelta

C8_Timing ==
    /\ []C8_TimingInv
    /\ [][IF pc = "time"
          THEN /\ clock' >= clock
               /\ lastFrame' = ToFloat(clock')
               /\ deltaTime' = ToFloat(lastFrame' - lastFrame)
               /\ 2 * Abs(deltaTime' - (clock' - clock))
                     <= 3 * UlpFrom(clock', 1)
          ELSE UNCHANGED <<clock, deltaTime, lastFrame>>]_vars

\* C8 witness: in the second iteration the time logic ran on a reading no
\* float holds, after an earlier reading that a float does hold.
C8_Witness ==
    /\ pc = "input"
    /\ iters = 2
    /\ lastFrame # clock
    /\ deltaTime > 0
    /\ deltaTime # lastFrame

\* C10 as stated: mouse_callback hands camera.ProcessMouseMovement the
\* offsets xpos - (previous x) and (previous y) - ypos, (0, 0) for the first
\* event of the run; afterwards lastX / lastY are the event's position and
\* firstMouse is false for good; scroll_callback forwards the vertical
\* offset alone and leaves the cursor globals as they are.
C10_Original ==
    /\ [][cursor' # cursor =>
            LET call == cameraCalls'[Len(cameraCalls')]
            IN  /\ call[1] = "ProcessMouseMovement"
                /\ cursor = None => (call[2] = 0 /\ call[3] = 0)
                /\ cursor # None =>
                      /\ call[2] = cursor'[1] - cursor[1]
                      /\ call[3] = cursor[2] - cursor'[2]
                /\ lastX' = cursor'[1]
                /\ lastY' = cursor'[2]
                /\ ~firstMouse']_vars
    /\ [][~firstMouse => ~firstMouse']_vars
    /\ [][(Len(eventLog') > Len(eventLog)
             /\ eventLog'[Len(eventLog')][1] = "scroll") =>
            /\ cameraCalls'[Len(cameraCalls')] =
                  <<"ProcessMouseScroll", eventLog'[Len(eventLog')][3]>>
            /\ UNCHANGED <<lastX, lastY, firstMouse>>]_vars

=============================================================================
